---- MODULE Spec2Model ----
(***************************************************************************)
(* The push-request forwarding pipeline of Teams_automation:               *)
(*   persistence.py      the two JSON-file stores                          *)
(*   message_monitor.py  MessageMonitor.get_new_messages                   *)
(*   duplicate_checker.py DuplicateChecker.is_duplicate                    *)
(*   forwarder.py        forward_message                                   *)
(*   message_detector.py the detectors                                     *)
(*   main.py             check_and_forward (one tick)                      *)
(*                                                                         *)
(* Spec      is the pipeline: ticks of check_and_forward, process          *)
(*           restarts, the wall clock and the people writing in the chats. *)
(* SpecStore is the two stores driven directly through their methods, as   *)
(*           tests/test_duplicate_checker.py drives them.                  *)
(* SpecLoad, SpecDup, SpecMonitor call one component once: a store         *)
(*           constructed over a file it did not write, is_duplicate, and   *)
(*           get_new_messages, over all the arguments within the bounds.   *)
(* SpecAsWritten is the tick with the call of main.py:63-66 as written.    *)
(* SpecSched is the interval job of main.py:170-183 and the ticks it       *)
(*           starts.                                                       *)
(* SpecDetector calls the detectors of message_detector.py once: detect on *)
(*           each kind of detector, the constructor and add_pattern.       *)
(*                                                                         *)
(* main.py as it stands does not run: line 88 holds a stray token, line 19 *)
(* imports add_reaction_to_message, which forwarder.py does not define,    *)
(* and lines 63-66 pass include_self to get_new_messages, which            *)
(* message_monitor.py:38 does not declare.  The tick is modelled with the  *)
(* call of lines 63-66 reaching get_new_messages(chat) as declared, and    *)
(* the forward call of lines 85-90 as forward_message declares it.         *)
(***************************************************************************)
EXTENDS Integers, Sequences, FiniteSets, TLC

(***************************************************************************)
(* Bounds of the model.                                                    *)
(***************************************************************************)
\* messages written in the monitored chats
MaxMsgs == 2
\* readings of the wall clock by the monitor (one per cursor write)
MaxTime == 2
\* how far the chat service's clock may be ahead of the local one
MaxSkew == 1
\* direct store calls in SpecStore
MaxOps == 4

(***************************************************************************)
(* Values.  Python's Optional[x] is the empty tuple (None) or <<x>>.       *)
(* A str is a tuple of characters.                                         *)
(***************************************************************************)
None == <<>>
Some(x) == <<x>>

Range(s) == {s[i] : i \in DOMAIN s}

\* str.lower(), character by character
LowerChar(ch) ==
  CASE ch = "J" -> "j"
    [] ch = "K" -> "k"
    [] ch = "P" -> "p"
    [] ch = "U" -> "u"
    [] ch = "S" -> "s"
    [] ch = "H" -> "h"
    [] ch = "I" -> "i"
    [] ch = "T" -> "t"
    [] OTHER -> ch

Lower(s) == [i \in DOMAIN s |-> LowerChar(s[i])]

\* the job ids people write
JobStrings == { <<"J", "1">>, <<"j", "1">>, <<"K", "2">> }

\* datetime.isoformat() and datetime.fromisoformat(): the stored text of an instant
isoformat(t) == [iso |-> t]
fromisoformat(s) == s.iso

(***************************************************************************)
(* Configuration (config.py, main.py:126-166).                             *)
(***************************************************************************)
target_push_chat_id == "target"
my_display_name == "me"
OtherName == "ann"

\* ChatFetcher.get_all_chats: the chats of the user, in the service's order
AllChats == << "c1", "target", "c2" >>

ONE_ON_ONE == "oneOnOne"
GROUP == "group"
MEETING == "meeting"

\* "c1" is a direct chat, "m1" a meeting chat, the others are group chats
chat_type(c) == IF c = "c1" THEN ONE_ON_ONE ELSE IF c = "m1" THEN MEETING ELSE GROUP

MonitoredChats == {"c1", "c2"}
MsgIds == 1..MaxMsgs

VARIABLES
  now,            \* the wall clock, datetime.now(timezone.utc)
  msgs,           \* the messages written so far in the monitored chats; the id is the index
  targetRefs,     \* target chat: original ids named by forwardedMessageReference attachments
  targetBodies,   \* target chat: the job ids typed in message bodies
  pollData,       \* PollStatePersistence.data
  pollFile,       \* poll_state.json
  fwdData,        \* ForwardedHistoryPersistence.data
  fwdFile,        \* forwarded_history.json
  pc,             \* where the tick of check_and_forward stands
  ci,             \* index of the chat of the for loop of main.py:57
  resp,           \* messages_response.value of message_monitor.py:55
  last_poll_time, \* the cursor read at message_monitor.py:51
  new_messages,   \* the list returned by get_new_messages, as message ids
  mi,             \* index of the message of the for loop of main.py:68
  cur_job,        \* result.job_id of the message being forwarded
  forwarded_count,
  polled,         \* history: the chats get_new_messages has returned for in this tick
  fetchFailed,    \* history: the chats whose fetch raised in this tick
  fwdOk,          \* history: forwarded ids obtained per original message id
  failed,         \* history: messages whose forward failed, not evaluated since
  dropped,        \* history: messages returned by the monitor, lost to a restart, not evaluated since
  lastSet,        \* history: the time last given to update_last_poll_time, per chat
  rerecorded,     \* history: mark_forwarded has replaced a record by one with another job id
  ops,            \* direct store calls made (SpecStore)
  last_op,        \* the direct store call just made (SpecStore)
  call            \* a single call of one component: its arguments and, once made, its result

vars == << now, msgs, targetRefs, targetBodies, pollData, pollFile, fwdData, fwdFile,
           pc, ci, resp, last_poll_time, new_messages, mi, cur_job, forwarded_count,
           polled, fetchFailed, fwdOk, failed, dropped, lastSet, rerecorded, ops, last_op, call >>

envVars == << msgs, targetBodies >>
storeVars == << pollData, pollFile, fwdData, fwdFile >>
tickVars == << pc, ci, resp, last_poll_time, new_messages, mi, cur_job, forwarded_count >>
histVars == << polled, fetchFailed, fwdOk, failed, dropped, lastSet, rerecorded >>

(***************************************************************************)
(* persistence.py                                                          *)
(***************************************************************************)
MissingFile == [kind |-> "missing"]
\* json.dump(self.data, f)
JsonDump(data) == [kind |-> "json", value |-> data]

EmptyPollData == [chats |-> << >>]
EmptyFwdData == [forwarded_messages |-> << >>, forwarded_job_ids |-> << >>]

\* a constructor that never reads the file
PollLoad_Empty(file) == [chats |-> << >>]

\* PollStatePersistence._load
PollLoad(file) ==
  IF file.kind = "json" THEN file.value ELSE EmptyPollData

\* a mutating call that forgets _save
PollSave_Skipped(file, data) == file

\* PollStatePersistence._save: the file is rewritten whole
PollSave(file, data) == JsonDump(data)

get_last_poll_time(data, chat_id) ==
  IF chat_id \in DOMAIN data.chats
    THEN Some(fromisoformat(data.chats[chat_id].last_poll_time))
    ELSE None

\* an update that leaves the entry as it was
SetPollTime_Skip(data, chat_id, time) == data

\* an update that moves the cursor of every chat
SetPollTime_EveryChat(data, chat_id, time) ==
  [data EXCEPT !.chats = [c \in MonitoredChats |-> [last_poll_time |-> isoformat(time)]]]

\* the assignment of update_last_poll_time, before _save
SetPollTime(data, chat_id, time) ==
  [data EXCEPT !.chats = (chat_id :> [last_poll_time |-> isoformat(time)]) @@ @]

\* ForwardedHistoryPersistence._load
FwdLoad(file) ==
  IF file.kind = "json" THEN file.value ELSE EmptyFwdData

\* a mutating call that forgets _save
FwdSave_Skipped(file, data) == file

\* ForwardedHistoryPersistence._save: the file is rewritten whole
FwdSave(file, data) == JsonDump(data)

\* a local check that never finds the record
is_forwarded_Never(data, message_id) == FALSE

is_forwarded(data, message_id) == message_id \in DOMAIN data.forwarded_messages

\* a job check that compares the spelling as it stands
is_job_id_forwarded_ExactCase(data, job_id) == job_id \in Range(data.forwarded_job_ids)

is_job_id_forwarded(data, job_id) ==
  Lower(job_id) \in {Lower(j) : j \in Range(data.forwarded_job_ids)}

\* Python's truth value of an Optional[str]
Truthy(job_id) == job_id # None /\ job_id[1] # << >>

\* a mark_forwarded that never extends the list
JobIdsAfter_Never(ids, job_id) == ids

\* a mark_forwarded that lists whatever job id it is given
JobIdsAfter_AppendAbsent(ids, job_id) ==
  Append(ids, IF job_id = None THEN << >> ELSE job_id[1])

\* the job-id list after mark_forwarded
JobIdsAfter(ids, job_id) ==
  IF Truthy(job_id) /\ job_id[1] \notin Range(ids) THEN Append(ids, job_id[1]) ELSE ids

\* the assignments of mark_forwarded, before _save
MarkForwarded(data, message_id, job_id, forwarded_message_id, at) ==
  [forwarded_messages |->
      (message_id :> [job_id |-> job_id,
                      forwarded_message_id |-> forwarded_message_id,
                      forwarded_at |-> isoformat(at)]) @@ data.forwarded_messages,
   forwarded_job_ids |-> JobIdsAfter(data.forwarded_job_ids, job_id)]

\* mark_forwarded overwrites the record of message_id by one with another job id
Replaces(data, message_id, job_id) ==
  /\ message_id \in DOMAIN data.forwarded_messages
  /\ data.forwarded_messages[message_id].job_id # job_id

get_all_forwarded_job_ids(data) == data.forwarded_job_ids

(***************************************************************************)
(* Initial state: no store file yet (main.py:160-161 constructs both       *)
(* stores), no message written, the scheduler idle.                        *)
(***************************************************************************)
NoOp == [kind |-> "none", msg |-> 0]
\* no component is being called on its own
NoCall == [op |-> "none"]

\* the program and its surroundings as main.py:158-166 leaves them
Constructed ==
  /\ now = 0
  /\ msgs = << >>
  /\ targetRefs = {}
  /\ targetBodies = {}
  /\ pollFile = MissingFile
  /\ pollData = PollLoad(MissingFile)
  /\ fwdFile = MissingFile
  /\ fwdData = FwdLoad(MissingFile)
  /\ pc = "idle"
  /\ ci = 0
  /\ resp = << >>
  /\ last_poll_time = None
  /\ new_messages = << >>
  /\ mi = 0
  /\ cur_job = None
  /\ forwarded_count = 0
  /\ polled = {}
  /\ fetchFailed = {}
  /\ fwdOk = [m \in MsgIds |-> 0]
  /\ failed = {}
  /\ dropped = {}
  /\ lastSet = << >>
  /\ ops = 0
  /\ rerecorded = FALSE
  /\ last_op = NoOp

Init == Constructed /\ call = NoCall

(***************************************************************************)
(* The chats.  A message is written in a monitored chat and stamped by the *)
(* chat service, whose clock may be ahead of the local one.  People write  *)
(* push requests in the target chat as well.                               *)
(***************************************************************************)
EmptyContent == [text |-> "", job |-> None]
ChatContent == [text |-> "hello", job |-> None]
PushContent(job) == [text |-> "push", job |-> job]

\* who writes what: author, mentions and body of the messages people write
Shapes ==
  { [from_name |-> OtherName, mentions |-> {my_display_name}, content |-> PushContent(Some(<<"J", "1">>))],
    [from_name |-> OtherName, mentions |-> {my_display_name}, content |-> PushContent(None)],
    [from_name |-> my_display_name, mentions |-> {my_display_name}, content |-> PushContent(Some(<<"J", "1">>))],
    [from_name |-> OtherName, mentions |-> {my_display_name}, content |-> ChatContent] }

PostMessage(c, shape, skew) ==
  /\ Len(msgs) < MaxMsgs
  /\ msgs' = Append(msgs, [chat |-> c, created_date_time |-> now + skew,
                           from_name |-> shape.from_name, mentions |-> shape.mentions,
                           content |-> shape.content, reacted |-> FALSE])
  /\ UNCHANGED << now, targetRefs, targetBodies, storeVars, tickVars, histVars, ops, last_op, call >>

\* somebody else relays message m into the target chat
OthersForward(m) ==
  /\ m \in DOMAIN msgs
  /\ m \notin targetRefs
  /\ targetRefs' = targetRefs \cup {m}
  /\ UNCHANGED << now, msgs, targetBodies, storeVars, tickVars, histVars, ops, last_op, call >>

\* somebody types a job id into the target chat
TypedBodies == { <<"d", "o", "n", "e", " ", "J", "1">> }

OthersMention(body) ==
  /\ body \notin targetBodies
  /\ targetBodies' = targetBodies \cup {body}
  /\ UNCHANGED << now, msgs, targetRefs, storeVars, tickVars, histVars, ops, last_op, call >>

(***************************************************************************)
(* message_detector.py, as main.py:159 configures it: the patterns of the  *)
(* configuration match the push texts and capture their job id.            *)
(***************************************************************************)
Negative == [is_push_request |-> FALSE, job_id |-> None]

detect(content) ==
  IF content.text = "" THEN Negative
  ELSE IF content.text = "push" THEN [is_push_request |-> TRUE, job_id |-> content.job]
  ELSE Negative

(***************************************************************************)
(* message_monitor.py                                                      *)
(***************************************************************************)
\* created_date_time of a message that carries none
NoTime == -1

\* a self check that never recognises the sender
_is_from_self_Never(message) == FALSE

RECURSIVE ChatMessages(_, _)
\* the message ids of chat c among the first n, newest first
ChatMessages(c, n) ==
  IF n = 0 THEN << >>
  ELSE (IF msgs[n].chat = c THEN << n >> ELSE << >>) \o ChatMessages(c, n - 1)

_is_from_self(message) == message.from_name = my_display_name

_is_mentioned(message) == my_display_name \in message.mentions

\* a time filter that lets the cursor's own instant through
NotNewer_Strict(last, msg_time) == last # None /\ msg_time # NoTime /\ msg_time < last[1]

\* message_monitor.py:74-83
NotNewer(last, msg_time) == last # None /\ msg_time # NoTime /\ msg_time <= last[1]

\* a group filter satisfied by a mention of anybody
IncludedByType_AnyMention(c, message) ==
  \/ chat_type(c) = ONE_ON_ONE
  \/ chat_type(c) = GROUP /\ message.mentions # {}

\* message_monitor.py:85-92
IncludedByType(c, message) ==
  \/ chat_type(c) = ONE_ON_ONE
  \/ chat_type(c) = GROUP /\ _is_mentioned(message)

\* the body of the for loop of message_monitor.py:64-92
Keeps(c, last, message) ==
  /\ message.content.text # ""
  /\ ~ _is_from_self(message)
  /\ ~ NotNewer(last, message.created_date_time)
  /\ IncludedByType(c, message)

FilterNew(c, last, response) ==
  SelectSeq(response, LAMBDA m : Keeps(c, last, msgs[m]))

\* message_monitor.py:59-60: the early return leaves the cursor alone
EmptyResponse(response) == response = << >>

\* the cursor update in a finally block: written on a failed fetch too
CursorAfterFetchError_Finally(data, chat_id, time) ==
  [data EXCEPT !.chats = (chat_id :> [last_poll_time |-> [iso |-> time]]) @@ @]

\* message_monitor.py:100-102: the except branch is past the cursor update of
\* line 96, which the failed fetch never reached
CursorAfterFetchError(data, chat_id, time) == data

(***************************************************************************)
(* duplicate_checker.py                                                    *)
(***************************************************************************)
Contains(s, sub) ==
  \E i \in 0..(Len(s) - Len(sub)) : SubSeq(s, i + 1, i + Len(sub)) = sub

\* fetched: the query of the target chat returned (else the except branch)
_check_forwarded_in_target(fetched, refs, original_message_id) ==
  fetched /\ original_message_id \in refs

_check_job_id_mentioned(fetched, bodies, job_id) ==
  fetched /\ \E b \in bodies : Contains(Lower(b), Lower(job_id))

is_duplicate(data, refs, bodies, message_id, job_id, fetched2, fetched3) ==
  \/ is_forwarded(data, message_id)
  \/ _check_forwarded_in_target(fetched2, refs, message_id)
  \/ Truthy(job_id) /\ _check_job_id_mentioned(fetched3, bodies, job_id[1])

(***************************************************************************)
(* forwarder.py                                                            *)
(***************************************************************************)
\* the outcomes of forward_message: an id, an exception of the call, or a
\* completed call without an id (forwarder.py:55-59)
ForwardOutcomes == {"ok", "raise", "noid"}

ForwardedId(message_id) == << "fwd", message_id >>

\* forward_message: the id it returns, None when it raises
forward_message(outcome, message_id) ==
  IF outcome = "ok" THEN Some(ForwardedId(message_id)) ELSE None

\* mark_forwarded outside the try block: reached whatever forward_message did
Marks_Always(forwarded_id) == TRUE

\* config.get("add_reaction_after_forward", False), switched on
add_reaction_after_forward == TRUE

\* what the reaction call comes to: it returns True, returns False, raises
ReactOutcomes == {"ok", "false", "raise"}

\* add_reaction_to_message(graph_client, chat_id, message_id): the success
\* flag, False standing for a raise as well (main.py:110-113 treat both alike)
add_reaction_to_message(outcome) == outcome = "ok"

\* a failed reaction taken back from the count
CountAfterReaction_Undo(count, outcome) == IF outcome = "ok" THEN count ELSE count - 1

\* main.py:102-113 leave forwarded_count alone
CountAfterReaction(count, outcome) == count

\* main.py:84-97: mark_forwarded is reached when forward_message has returned
Marks(forwarded_id) == forwarded_id # None

\* the chat service has relayed the message
Relayed(outcome) == outcome \in {"ok", "noid"}

(***************************************************************************)
(* main.py: check_and_forward, one action per remote call of the tick.     *)
(***************************************************************************)
\* a loop that skips no chat
IsTargetChat_Never(chat_id) == FALSE

\* main.py:59: chat.chat_id == config["target_push_chat_id"]
IsTargetChat(chat_id) == chat_id = target_push_chat_id

\* main.py:44-55: the scheduler starts a tick and the chats are listed
TickStart ==
  /\ pc \in {"idle", "aborted"}
  /\ pc' = "chats"
  /\ ci' = 1
  /\ forwarded_count' = 0
  /\ polled' = {}
  /\ fetchFailed' = {}
  /\ UNCHANGED << now, msgs, targetRefs, targetBodies, storeVars, resp, last_poll_time,
                  new_messages, mi, cur_job, fwdOk, failed, dropped, lastSet, rerecorded, ops, last_op, call >>

\* main.py:59-60
TickSkipTarget ==
  /\ pc = "chats"
  /\ ci <= Len(AllChats)
  /\ IsTargetChat(AllChats[ci])
  /\ ci' = ci + 1
  /\ UNCHANGED << now, msgs, targetRefs, targetBodies, storeVars, pc, resp, last_poll_time,
                  new_messages, mi, cur_job, forwarded_count, histVars, ops, last_op, call >>

\* message_monitor.py:51-57: the cursor is read and the chat's messages are fetched
MonitorFetch ==
  /\ pc = "chats"
  /\ ci <= Len(AllChats)
  /\ ~ IsTargetChat(AllChats[ci])
  /\ last_poll_time' = get_last_poll_time(pollData, AllChats[ci])
  /\ resp' = ChatMessages(AllChats[ci], Len(msgs))
  /\ pc' = "fetched"
  /\ UNCHANGED << now, msgs, targetRefs, targetBodies, storeVars, ci, new_messages, mi,
                  cur_job, forwarded_count, histVars, ops, last_op, call >>

\* message_monitor.py:100-102: the fetch raises, get_new_messages returns []
MonitorFetchFails ==
  /\ pc = "chats"
  /\ ci <= Len(AllChats)
  /\ ~ IsTargetChat(AllChats[ci])
  /\ new_messages' = << >>
  /\ mi' = 1
  /\ pc' = "msgs"
  /\ fetchFailed' = fetchFailed \cup {AllChats[ci]}
  /\ pollData' = CursorAfterFetchError(pollData, AllChats[ci], now)
  /\ pollFile' = IF pollData' = pollData THEN pollFile ELSE PollSave(pollFile, pollData')
  /\ UNCHANGED << now, msgs, targetRefs, targetBodies, fwdData, fwdFile, ci, resp, last_poll_time,
                  cur_job, forwarded_count, polled, fwdOk, failed, dropped, lastSet, rerecorded, ops, last_op, call >>

\* message_monitor.py:59-60: nothing fetched, get_new_messages returns []
MonitorReturnEmpty ==
  /\ pc = "fetched"
  /\ EmptyResponse(resp)
  /\ new_messages' = << >>
  /\ mi' = 1
  /\ pc' = "msgs"
  /\ polled' = polled \cup {AllChats[ci]}
  /\ UNCHANGED << now, msgs, targetRefs, targetBodies, storeVars, ci, resp, last_poll_time,
                  cur_job, forwarded_count, fetchFailed, fwdOk, failed, dropped, lastSet, rerecorded, ops, last_op, call >>

\* message_monitor.py:62-98: the messages are filtered, the cursor is set to
\* the clock's reading and written through
MonitorReturn ==
  /\ pc = "fetched"
  /\ ~ EmptyResponse(resp)
  /\ now < MaxTime
  /\ new_messages' = FilterNew(AllChats[ci], last_poll_time, resp)
  /\ pollData' = SetPollTime(pollData, AllChats[ci], now)
  /\ pollFile' = PollSave(pollFile, pollData')
  /\ lastSet' = (AllChats[ci] :> now) @@ lastSet
  /\ now' = now + 1
  /\ mi' = 1
  /\ pc' = "msgs"
  /\ polled' = polled \cup {AllChats[ci]}
  /\ UNCHANGED << msgs, targetRefs, targetBodies, fwdData, fwdFile, ci, resp, last_poll_time,
                  cur_job, forwarded_count, fetchFailed, fwdOk, failed, dropped, rerecorded, ops, last_op, call >>

\* main.py:68-82 and 117-118: the message is classified and, a push request,
\* checked for duplicates (fetched2, fetched3: the two queries of the target
\* chat return)
TickMessage(fetched2, fetched3) ==
  /\ pc = "msgs"
  /\ mi <= Len(new_messages)
  /\ LET m == new_messages[mi]
         result == detect(msgs[m].content)
         is_dup == is_duplicate(fwdData, targetRefs, targetBodies, m, result.job_id,
                                fetched2, fetched3)
     IN /\ failed' = failed \ {m}
        /\ dropped' = dropped \ {m}
        /\ IF result.is_push_request /\ ~ is_dup
             THEN /\ pc' = "forward"
                  /\ cur_job' = result.job_id
                  /\ UNCHANGED mi
             ELSE /\ mi' = mi + 1
                  /\ UNCHANGED << pc, cur_job >>
  /\ UNCHANGED << now, msgs, targetRefs, targetBodies, storeVars, ci, resp, last_poll_time,
                  new_messages, forwarded_count, polled, fetchFailed, fwdOk, lastSet, rerecorded, ops, last_op, call >>

\* main.py:84-116: forward_message, then mark_forwarded if it returned an id
TickForward(outcome) ==
  /\ pc = "forward"
  /\ LET m == new_messages[mi]
         forwarded_id == forward_message(outcome, m)
     IN /\ targetRefs' = IF Relayed(outcome) THEN targetRefs \cup {m} ELSE targetRefs
        /\ fwdOk' = IF forwarded_id # None THEN [fwdOk EXCEPT ![m] = @ + 1] ELSE fwdOk
        /\ failed' = IF forwarded_id # None THEN failed ELSE failed \cup {m}
        /\ IF Marks(forwarded_id)
             THEN /\ fwdData' = MarkForwarded(fwdData, m, cur_job, forwarded_id, now)
                  /\ fwdFile' = FwdSave(fwdFile, fwdData')
                  /\ forwarded_count' = forwarded_count + 1
                  /\ rerecorded' = (rerecorded \/ Replaces(fwdData, m, cur_job))
             ELSE UNCHANGED << fwdData, fwdFile, forwarded_count, rerecorded >>
        /\ IF Marks(forwarded_id) /\ add_reaction_after_forward
             THEN pc' = "react" /\ mi' = mi
             ELSE pc' = "msgs" /\ mi' = mi + 1
  /\ cur_job' = None
  /\ UNCHANGED << now, msgs, targetBodies, pollData, pollFile, ci, resp, last_poll_time,
                  new_messages, polled, fetchFailed, dropped, lastSet, ops, last_op, call >>

\* main.py:102-113: the reaction on the original message; whatever comes of
\* it, the loop goes on with the next message
TickReact(outcome) ==
  /\ pc = "react"
  /\ msgs' = IF add_reaction_to_message(outcome)
               THEN [msgs EXCEPT ![new_messages[mi]].reacted = TRUE] ELSE msgs
  /\ forwarded_count' = CountAfterReaction(forwarded_count, outcome)
  /\ pc' = "msgs"
  /\ mi' = mi + 1
  /\ UNCHANGED << now, targetRefs, targetBodies, storeVars, ci, resp, last_poll_time,
                  new_messages, cur_job, histVars, ops, last_op, call >>

\* a loop that goes on to the next chat with messages of this one left over
TickNextChat_Early ==
  /\ pc = "msgs"
  /\ pc' = "chats"
  /\ ci' = ci + 1
  /\ new_messages' = << >>
  /\ resp' = << >>
  /\ last_poll_time' = None
  /\ mi' = 0
  /\ UNCHANGED << now, msgs, targetRefs, targetBodies, storeVars, cur_job, forwarded_count,
                  histVars, ops, last_op, call >>

\* main.py:57: the next chat
TickNextChat ==
  /\ pc = "msgs"
  /\ mi > Len(new_messages)
  /\ pc' = "chats"
  /\ ci' = ci + 1
  /\ new_messages' = << >>
  /\ resp' = << >>
  /\ last_poll_time' = None
  /\ mi' = 0
  /\ UNCHANGED << now, msgs, targetRefs, targetBodies, storeVars, cur_job, forwarded_count,
                  histVars, ops, last_op, call >>

\* main.py:120: the tick reports forwarded_count
TickDone ==
  /\ pc = "chats"
  /\ ci > Len(AllChats)
  /\ pc' = "idle"
  /\ ci' = 0
  /\ UNCHANGED << now, msgs, targetRefs, targetBodies, storeVars, resp, last_poll_time,
                  new_messages, mi, cur_job, forwarded_count, histVars, ops, last_op, call >>

\* the process stops between two steps of a tick and starts again:
\* main.py:160-161 constructs both stores from their files
Restart ==
  /\ pc # "idle"
  /\ pollData' = PollLoad(pollFile)
  /\ fwdData' = FwdLoad(fwdFile)
  /\ dropped' = dropped \cup
        (IF pc \in {"msgs", "forward"}
           THEN {new_messages[i] : i \in mi..Len(new_messages)}
         ELSE IF pc = "react"
           THEN {new_messages[i] : i \in (mi + 1)..Len(new_messages)} ELSE {})
  /\ pc' = "idle"
  /\ ci' = 0
  /\ resp' = << >>
  /\ last_poll_time' = None
  /\ new_messages' = << >>
  /\ mi' = 0
  /\ cur_job' = None
  /\ forwarded_count' = 0
  /\ polled' = {}
  /\ fetchFailed' = {}
  /\ failed' = {}
  /\ UNCHANGED << now, msgs, targetRefs, targetBodies, pollFile, fwdFile, fwdOk,
                  lastSet, rerecorded, ops, last_op, call >>

Next ==
  \/ \E c \in MonitoredChats, shape \in Shapes, skew \in 0..MaxSkew : PostMessage(c, shape, skew)
  \/ \E shape \in {sh \in Shapes : sh.from_name = OtherName /\ sh.content.job # None} :
       PostMessage(target_push_chat_id, shape, 0)
  \/ \E m \in MsgIds : OthersForward(m)
  \/ \E body \in TypedBodies : OthersMention(body)
  \/ TickStart
  \/ TickSkipTarget
  \/ MonitorFetch
  \/ MonitorFetchFails
  \/ MonitorReturnEmpty
  \/ MonitorReturn
  \/ \E fetched2, fetched3 \in BOOLEAN : TickMessage(fetched2, fetched3)
  \/ \E outcome \in ForwardOutcomes : TickForward(outcome)
  \/ \E outcome \in ReactOutcomes : TickReact(outcome)
  \/ TickNextChat
  \/ TickDone
  \/ Restart

Spec == Init /\ [][Next]_vars

(***************************************************************************)
(* The tick with the call of main.py:63-66 as it is written: the keyword   *)
(* include_self is passed to get_new_messages(self, chat).  The stray      *)
(* token of line 88 and the import of line 19 are taken as repaired, since *)
(* with either of them main.py does not load and no tick is ever run.      *)
(***************************************************************************)
\* the parameters message_monitor.py:38 declares and the keywords main.py:65 passes
DeclaredParams == {"self", "chat"}
PassedKeywords == {"include_self"}
CallBinds == PassedKeywords \subseteq DeclaredParams

\* main.py:63-66 raises TypeError before get_new_messages runs; the except of
\* line 122 ends the tick, line 120 is not reached
TickCallRaises ==
  /\ pc = "chats"
  /\ ci <= Len(AllChats)
  /\ ~ IsTargetChat(AllChats[ci])
  /\ ~ CallBinds
  /\ pc' = "aborted"
  /\ ci' = 0
  /\ UNCHANGED << now, msgs, targetRefs, targetBodies, storeVars, resp, last_poll_time,
                  new_messages, mi, cur_job, forwarded_count, histVars, ops, last_op, call >>

NextAsWritten ==
  \/ \E c \in MonitoredChats, shape \in Shapes, skew \in 0..MaxSkew : PostMessage(c, shape, skew)
  \/ \E m \in MsgIds : OthersForward(m)
  \/ \E body \in TypedBodies : OthersMention(body)
  \/ TickStart
  \/ TickCallRaises
  \/ Restart

SpecAsWritten == Init /\ [][NextAsWritten]_vars

(***************************************************************************)
(* The stores driven directly, as tests/test_duplicate_checker.py:26-87    *)
(* drives them: any call with any argument, and a second instance          *)
(* constructed from the same file.                                         *)
(***************************************************************************)
\* the job ids a caller may pass: None, the empty string, a job id
JobArgs == {None, Some(<< >>)} \cup {Some(j) : j \in JobStrings}

\* PollStatePersistence.update_last_poll_time(chat_id, time)
StoreSetPoll(chat_id, time) ==
  /\ ops < MaxOps
  /\ pollData' = SetPollTime(pollData, chat_id, time)
  /\ pollFile' = PollSave(pollFile, pollData')
  /\ lastSet' = (chat_id :> time) @@ lastSet
  /\ ops' = ops + 1
  /\ last_op' = [kind |-> "set", msg |-> 0]
  /\ UNCHANGED << now, msgs, targetRefs, targetBodies, fwdData, fwdFile, tickVars,
                  polled, fetchFailed, fwdOk, failed, dropped, rerecorded, call >>

\* ForwardedHistoryPersistence.mark_forwarded(message_id, job_id, forwarded_message_id)
StoreMark(message_id, job_id) ==
  /\ ops < MaxOps
  /\ fwdData' = MarkForwarded(fwdData, message_id, job_id, Some(ForwardedId(message_id)), now)
  /\ fwdFile' = FwdSave(fwdFile, fwdData')
  /\ ops' = ops + 1
  /\ rerecorded' = (rerecorded \/ Replaces(fwdData, message_id, job_id))
  /\ last_op' = [kind |-> "mark", msg |-> message_id, job |-> job_id]
  /\ UNCHANGED << now, msgs, targetRefs, targetBodies, pollData, pollFile, tickVars,
                  polled, fetchFailed, fwdOk, failed, dropped, lastSet, call >>

\* PollStatePersistence(file_path) and ForwardedHistoryPersistence(file_path):
\* new instances over the files of the old ones
StoreReload ==
  /\ ops < MaxOps
  /\ pollData' = PollLoad(pollFile)
  /\ fwdData' = FwdLoad(fwdFile)
  /\ ops' = ops + 1
  /\ last_op' = [kind |-> "reload", msg |-> 0]
  /\ UNCHANGED << now, msgs, targetRefs, targetBodies, pollFile, fwdFile, tickVars,
                  histVars, call >>

NextStore ==
  \/ \E c \in MonitoredChats, t \in 0..MaxTime : StoreSetPoll(c, t)
  \/ \E m \in MsgIds, j \in JobArgs : StoreMark(m, j)
  \/ StoreReload

SpecStore == Init /\ [][NextStore]_vars

(***************************************************************************)
(* A store constructed over a file it did not write, then one method       *)
(* called on it (persistence.py:26-35, 88-97).  _load catches              *)
(* json.JSONDecodeError and nothing else.                                  *)
(***************************************************************************)
\* a file whose text is not JSON (cut short, empty, overwritten with other text)
TextFile == [kind |-> "text"]
\* a file whose bytes are not UTF-8: open(..., encoding="utf-8") raises
\* UnicodeDecodeError on reading, which is not a json.JSONDecodeError
BytesFile == [kind |-> "bytes"]
\* a file holding the JSON object {}: it parses, and has none of the keys
ObjectFile == [kind |-> "json", value |-> << >>]

CorruptFiles == {TextFile, BytesFile, ObjectFile}

\* __init__ -> _load lets the exception of json.load out
LoadRaises(file) == file.kind = "bytes"

Returns(v) == [raised |-> FALSE, value |-> << v >>]
Raises == [raised |-> TRUE, value |-> << >>]

\* self.data[key] of a method: KeyError when the loaded object lacks the key
HasKey(data, key) == key \in DOMAIN data

\* the calls made on a store after constructing it
PollMethods ==
  [op : {"load"}, store : {"poll"}, method : {"get_last_poll_time"},
   chat : MonitoredChats, time : {0}, msg : {0}, job : {None}]
  \cup
  [op : {"load"}, store : {"poll"}, method : {"update_last_poll_time"},
   chat : MonitoredChats, time : 0..MaxTime, msg : {0}, job : {None}]

FwdMethods ==
  [op : {"load"}, store : {"fwd"}, method : {"is_forwarded"},
   chat : {"c1"}, time : {0}, msg : MsgIds, job : {None}]
  \cup
  [op : {"load"}, store : {"fwd"}, method : {"is_job_id_forwarded"},
   chat : {"c1"}, time : {0}, msg : {0}, job : {Some(j) : j \in JobStrings}]
  \cup
  [op : {"load"}, store : {"fwd"}, method : {"mark_forwarded"},
   chat : {"c1"}, time : {0}, msg : MsgIds, job : JobArgs]

\* PollStatePersistence(file) followed by m
PollOutcome(file, m) ==
  IF LoadRaises(file) THEN Raises
  ELSE LET data == PollLoad(file)
       IN IF ~ HasKey(data, "chats") THEN Raises
          ELSE IF m.method = "get_last_poll_time"
                 THEN Returns(get_last_poll_time(data, m.chat))
                 ELSE LET after == SetPollTime(data, m.chat, m.time)
                      IN Returns([data |-> after, file |-> PollSave(file, after)])

\* ForwardedHistoryPersistence(file) followed by m
FwdOutcome(file, m) ==
  IF LoadRaises(file) THEN Raises
  ELSE LET data == FwdLoad(file)
       IN IF m.method = "is_forwarded"
            THEN IF HasKey(data, "forwarded_messages")
                   THEN Returns(is_forwarded(data, m.msg)) ELSE Raises
          ELSE IF m.method = "is_job_id_forwarded"
            THEN IF HasKey(data, "forwarded_job_ids")
                   THEN Returns(is_job_id_forwarded(data, m.job[1])) ELSE Raises
          ELSE IF HasKey(data, "forwarded_messages") /\ HasKey(data, "forwarded_job_ids")
                   THEN LET after == MarkForwarded(data, m.msg, m.job,
                                                   Some(ForwardedId(m.msg)), now)
                        IN Returns([data |-> after, file |-> FwdSave(file, after)])
                   ELSE Raises

LoadOutcome(file, m) ==
  IF m.store = "poll" THEN PollOutcome(file, m) ELSE FwdOutcome(file, m)

\* the files a store is constructed over: none, a damaged one, one a store wrote
WrittenFile(store) ==
  IF store = "poll" THEN PollSave(MissingFile, SetPollTime(EmptyPollData, "c1", 0))
  ELSE FwdSave(MissingFile, MarkForwarded(EmptyFwdData, 1, Some(<<"J", "1">>),
                                          Some(ForwardedId(1)), 0))

LoadCalls ==
  { [method |-> m, file |-> f, done |-> FALSE, result |-> Raises] :
      m \in PollMethods \cup FwdMethods, f \in {MissingFile} \cup CorruptFiles }
  \cup
  { [method |-> m, file |-> WrittenFile(m.store), done |-> FALSE, result |-> Raises] :
      m \in PollMethods \cup FwdMethods }

InitLoad == Constructed /\ call \in LoadCalls

\* the store is constructed and the method called
LoadCall ==
  /\ ~ call.done
  /\ call' = [call EXCEPT !.done = TRUE, !.result = LoadOutcome(call.file, call.method)]
  /\ UNCHANGED << now, msgs, targetRefs, targetBodies, storeVars, tickVars, histVars,
                  ops, last_op >>

SpecLoad == InitLoad /\ [][LoadCall]_vars

(***************************************************************************)
(* DuplicateChecker.is_duplicate called once, over a target chat given as  *)
(* the list of messages its queries return (duplicate_checker.py:38-138).  *)
(***************************************************************************)
FORWARD_REF == "forwardedMessageReference"

\* att.content: nothing, text that is not JSON, JSON that is not an object,
\* a JSON object with or without originalMessageId
NoContent == [kind |-> "none", originalMessageId |-> None]
BadJson == [kind |-> "text", originalMessageId |-> None]
JsonNull == [kind |-> "scalar", originalMessageId |-> None]
JsonObject(id) == [kind |-> "object", originalMessageId |-> id]

\* duplicate_checker.py:91-98 on one attachment: "match" returns True,
\* "next" goes on with the scan, "raise" leaves the loops with an exception
\* (content.get on a value that is no dict), caught at line 102
AttachmentOutcome(att, original_message_id) ==
  IF att.content_type # FORWARD_REF THEN "next"
  ELSE IF att.content.kind = "none" THEN "next"
  ELSE IF att.content.kind = "text" THEN "next"
  ELSE IF att.content.kind = "scalar" THEN "raise"
  ELSE IF att.content.originalMessageId = Some(original_message_id) THEN "match"
  ELSE "next"

RECURSIVE AllAttachments(_)
\* the attachments in the order the two loops of lines 88-90 visit them
AllAttachments(value) ==
  IF value = << >> THEN << >>
  ELSE Head(value).attachments \o AllAttachments(Tail(value))

RECURSIVE ScanAttachments(_, _)
ScanAttachments(atts, original_message_id) ==
  IF atts = << >> THEN "notfound"
  ELSE LET o == AttachmentOutcome(Head(atts), original_message_id)
       IN IF o = "match" THEN "found"
          ELSE IF o = "raise" THEN "failed"
          ELSE ScanAttachments(Tail(atts), original_message_id)

\* the try body of _check_forwarded_in_target: q is the outcome of the query
ForwardedCheck(q, value, original_message_id) ==
  IF q = "raise" THEN "failed" ELSE ScanAttachments(AllAttachments(value), original_message_id)

\* a comparison that keeps the letter case
BodyMentions_ExactCase(msg, job_id) ==
  msg.body # None /\ msg.body[1] # << >> /\ Contains(msg.body[1], job_id)

\* duplicate_checker.py:130-132 on one message
BodyMentions(msg, job_id) ==
  msg.body # None /\ msg.body[1] # << >> /\ Contains(Lower(msg.body[1]), Lower(job_id))

\* the try body of _check_job_id_mentioned
JobCheck(q, value, job_id) ==
  IF q = "raise" THEN "failed"
  ELSE IF \E i \in DOMAIN value : BodyMentions(value[i], job_id) THEN "found"
  ELSE "notfound"

\* a check without its except branch
Caught_Propagates(outcome) == outcome

\* the except branches of lines 102-104 and 136-138: the check returns False
Caught(outcome) == IF outcome = "failed" THEN "notfound" ELSE outcome

Verdict(v, calls) == [raised |-> FALSE, value |-> v, calls |-> calls]
Escapes(calls) == [raised |-> TRUE, value |-> FALSE, calls |-> calls]

\* is_duplicate with the remote checks made before the local one
IsDuplicateCall_RemoteFirst(data, message_id, job_id, q2, q3, value) ==
  Verdict(\/ Caught(ForwardedCheck(q2, value, message_id)) = "found"
          \/ is_forwarded(data, message_id),
          << "forwarded" >>)

\* is_duplicate with the job check made whatever the job id is
IsDuplicateCall_JobAlways(data, message_id, job_id, q2, q3, value) ==
  IF is_forwarded(data, message_id) THEN Verdict(TRUE, << >>)
  ELSE IF Caught(ForwardedCheck(q2, value, message_id)) = "found"
  THEN Verdict(TRUE, << "forwarded" >>)
  ELSE Verdict(Caught(JobCheck(q3, value, IF job_id = None THEN << >> ELSE job_id[1])) = "found",
               << "forwarded", "job" >>)

\* is_duplicate (lines 53-65): the verdict and the remote checks it made
IsDuplicateCall(data, message_id, job_id, q2, q3, value) ==
  IF is_forwarded(data, message_id) THEN Verdict(TRUE, << >>)
  ELSE LET c2 == Caught(ForwardedCheck(q2, value, message_id))
       IN IF c2 = "failed" THEN Escapes(<< "forwarded" >>)
          ELSE IF c2 = "found" THEN Verdict(TRUE, << "forwarded" >>)
          ELSE IF ~ Truthy(job_id) THEN Verdict(FALSE, << "forwarded" >>)
          ELSE LET c3 == Caught(JobCheck(q3, value, job_id[1]))
               IN IF c3 = "failed" THEN Escapes(<< "forwarded", "job" >>)
                  ELSE Verdict(c3 = "found", << "forwarded", "job" >>)

Ref(content) == [content_type |-> FORWARD_REF, content |-> content]
Card(content) == [content_type |-> "card", content |-> content]

\* messages of the target chat
TargetShapes ==
  { [attachments |-> << Ref(JsonObject(Some(1))) >>, body |-> None],
    [attachments |-> << Ref(BadJson), Ref(JsonObject(Some(2))) >>, body |-> Some(<< >>)],
    [attachments |-> << Ref(JsonNull) >>, body |-> None],
    [attachments |-> << Card(JsonObject(Some(1))), Ref(NoContent), Ref(JsonObject(None)) >>,
     body |-> Some(<<"o", "k">>)],
    [attachments |-> << >>, body |-> Some(<<"d", "o", "n", "e", " ", "J", "1">>)] }

MaxTarget == 2

TargetLists ==
  UNION { [1..n -> TargetShapes] : n \in 0..MaxTarget }

\* forwarded stores: empty, and holding the record of message 1
LocalStores ==
  { EmptyFwdData,
    MarkForwarded(EmptyFwdData, 1, Some(<<"J", "1">>), Some(ForwardedId(1)), 0) }

DupCalls ==
  [op : {"is_duplicate"}, data : LocalStores, message_id : MsgIds, job_id : JobArgs,
   q2 : {"ok", "raise"}, q3 : {"ok", "raise"}, value : TargetLists,
   done : {FALSE}, result : {Verdict(FALSE, << >>)}]

InitDup == Constructed /\ call \in DupCalls

DupCall ==
  /\ ~ call.done
  /\ call' = [call EXCEPT !.done = TRUE,
                          !.result = IsDuplicateCall(call.data, call.message_id, call.job_id,
                                                     call.q2, call.q3, call.value)]
  /\ UNCHANGED << now, msgs, targetRefs, targetBodies, storeVars, tickVars, histVars,
                  ops, last_op >>

SpecDup == InitDup /\ [][DupCall]_vars

(***************************************************************************)
(* MessageMonitor.get_new_messages called once on a chat of each kind,     *)
(* with and without a stored cursor, over the list its fetch returns       *)
(* (message_monitor.py:51-98).                                             *)
(***************************************************************************)
MaxFetched == 2

\* the messages a fetch may return: sender, mentions, body, creation time
MonitorShapes ==
  [from_name : {OtherName, my_display_name},
   mentions : {{my_display_name}, {"bob"}, {}},
   content : {ChatContent, EmptyContent},
   created_date_time : {NoTime} \cup 0..MaxTime]

FetchedLists ==
  UNION { [1..n -> MonitorShapes] : n \in 1..MaxFetched }

MonitorCalls ==
  [op : {"get_new_messages"}, chat : {"c1", "c2", "m1"},
   last : {None} \cup {Some(t) : t \in 0..MaxTime},
   value : FetchedLists, done : {FALSE}, result : {<< >>}]

InitMonitor == Constructed /\ call \in MonitorCalls

\* the list get_new_messages returns (lines 62-93, 98)
MonitorCall ==
  /\ ~ call.done
  /\ call' = [call EXCEPT !.done = TRUE,
                          !.result = SelectSeq(call.value,
                                               LAMBDA m : Keeps(call.chat, call.last, m))]
  /\ UNCHANGED << now, msgs, targetRefs, targetBodies, storeVars, tickVars, histVars,
                  ops, last_op >>

SpecMonitor == InitMonitor /\ [][MonitorCall]_vars

(***************************************************************************)
(* main.py:170-183: the interval job.  add_job is given no max_instances,  *)
(* so the scheduler's job default applies: one instance of the job at a    *)
(* time.  A run that becomes due while the coroutine of the previous one   *)
(* has not finished is not submitted.  The coroutine of a tick is          *)
(* suspended at its awaits (the fetch of a chat) and writes the cursor     *)
(* store when it resumes.                                                  *)
(***************************************************************************)
\* how often the interval elapses
MaxFires == 6

\* a scheduler that submits a due run next to a running one
MayStart_Beside(running) == running < 2

\* the job's instance limit: add_job at main.py:171 leaves the default, 1
MayStart(running) == running < 1

InitSched ==
  /\ Constructed
  /\ call = [op |-> "scheduler", running |-> << >>, fired |-> 0, skipped |-> 0]

\* the interval elapses (main.py:173-174)
SchedulerDue ==
  /\ call.fired < MaxFires
  /\ call' = IF MayStart(Len(call.running))
             THEN [call EXCEPT !.fired = @ + 1, !.running = Append(@, "start")]
             ELSE [call EXCEPT !.fired = @ + 1, !.skipped = @ + 1]
  /\ UNCHANGED << now, msgs, targetRefs, targetBodies, storeVars, tickVars, histVars,
                  ops, last_op >>

\* instance i of check_and_forward goes on to its next await or to its end:
\* it awaits the fetch (message_monitor.py:55), writes the cursor
\* (message_monitor.py:96) and returns (main.py:120)
TickInstanceStep(i) ==
  /\ i \in DOMAIN call.running
  /\ \/ /\ call.running[i] = "start"
        /\ call' = [call EXCEPT !.running[i] = "awaiting"]
        /\ UNCHANGED << pollData, pollFile >>
     \/ /\ call.running[i] = "awaiting"
        /\ call' = [call EXCEPT !.running[i] = "written"]
        /\ pollData' = SetPollTime(pollData, "c1", call.fired)
        /\ pollFile' = PollSave(pollFile, pollData')
     \/ /\ call.running[i] = "written"
        /\ call' = [call EXCEPT !.running = SelectSeq(@, LAMBDA p : p # "written")]
        /\ UNCHANGED << pollData, pollFile >>
  /\ UNCHANGED << now, msgs, targetRefs, targetBodies, fwdData, fwdFile, tickVars, histVars,
                  ops, last_op >>

NextSched ==
  \/ SchedulerDue
  \/ \E i \in 1..2 : TickInstanceStep(i)

SpecSched == InitSched /\ [][NextSched]_vars

(***************************************************************************)
(* message_detector.py, called on its own.  A text is a tuple of           *)
(* characters put together from pieces; a pattern string is one of a few   *)
(* regular expressions, each with what re.compile makes of it.             *)
(***************************************************************************)
\* pieces in a text, pattern strings in a list
MaxPieces == 2
MaxPatterns == 2

Pieces ==
  { <<"p", "u", "s", "h">>, <<"P", "u", "s", "H">>, <<"e", "d">>, <<"e", "s">>,
    <<"i", "n", "g">>, <<"e", "r">>, <<"I", "T">>, <<"i", "t">>, <<"I", "t">>,
    <<"b">>, <<" ">>, <<"_">>, <<"J", "1">>,
    <<"p", "u", "s", "h", " ", "J", "1">>, <<" ", "j", "o", "b", " ", "K", "2">> }

RECURSIVE TextsUpTo(_)
\* the texts of at most n pieces
TextsUpTo(n) ==
  IF n = 0 THEN { << >> }
  ELSE TextsUpTo(n - 1) \cup { t \o p : t \in TextsUpTo(n - 1), p \in Pieces }

\* the characters \w matches: every character used here but the blank
IsWordChar(ch) == ch # " "

\* the pattern strings: (?i)push (\w+)   (?i)job (\w+)   (?i)push
\* (?i)push(?: (\w+))?   the empty pattern   an unbalanced "("   a{4294967296}
PatternStrings ==
  { [lit |-> <<"p", "u", "s", "h">>, group |-> "word"],
    [lit |-> <<"j", "o", "b">>, group |-> "word"],
    [lit |-> <<"p", "u", "s", "h">>, group |-> "none"],
    [lit |-> <<"p", "u", "s", "h">>, group |-> "optional"],
    [lit |-> << >>, group |-> "none"],
    [lit |-> << "(" >>, group |-> "malformed"],
    [lit |-> << "a", "{" >>, group |-> "too_large"] }

\* re.compile(pattern): a pattern object, re.error for a malformed pattern,
\* OverflowError for a repetition count beyond the engine's limit
compile(pattern) ==
  CASE pattern.group = "malformed" -> "re.error"
    [] pattern.group = "too_large" -> "OverflowError"
    [] OTHER -> "compiled"

RECURSIVE CompileAll(_, _)
\* RegexMessageDetector.__init__ (lines 66-72): the loop over the patterns;
\* the except clause of line 70 names re.error alone
CompileAll(patterns, compiled) ==
  IF patterns = << >> THEN [raised |-> FALSE, patterns |-> compiled]
  ELSE LET made == compile(Head(patterns))
       IN IF made = "compiled" THEN CompileAll(Tail(patterns), Append(compiled, Head(patterns)))
          ELSE IF made = "re.error" THEN CompileAll(Tail(patterns), compiled)
          ELSE [raised |-> TRUE, patterns |-> compiled]

\* RegexMessageDetector.add_pattern (lines 108-122); the except clause of
\* line 121 names re.error alone
add_pattern(patterns, pattern) ==
  LET made == compile(pattern)
  IN IF made = "compiled"
     THEN [raised |-> FALSE, value |-> << TRUE >>, patterns |-> Append(patterns, pattern)]
     ELSE IF made = "re.error"
     THEN [raised |-> FALSE, value |-> << FALSE >>, patterns |-> patterns]
     ELSE [raised |-> TRUE, value |-> << >>, patterns |-> patterns]

\* the literal lit stands at position i of text, letter case ignored
LiteralAt(text, i, lit) ==
  /\ i >= 1
  /\ i + Len(lit) - 1 <= Len(text)
  /\ \A k \in 1..Len(lit) : LowerChar(text[i + k - 1]) = LowerChar(lit[k])

\* the match of pattern that starts at position i, if there is one; \w+ is
\* greedy and takes the word to its end
MatchAt(pattern, text, i) ==
  LET NoMatch == [matched |-> FALSE, groups |-> 0, group1 |-> None]
      j == i + Len(pattern.lit)
      word == j + 1 <= Len(text) /\ text[j] = " " /\ IsWordChar(text[j + 1])
      end == CHOOSE e \in (j + 1)..Len(text) :
               /\ \A k \in (j + 1)..e : IsWordChar(text[k])
               /\ e = Len(text) \/ ~ IsWordChar(text[e + 1])
      captured == Some(SubSeq(text, j + 1, end))
  IN IF ~ LiteralAt(text, i, pattern.lit) THEN NoMatch
     ELSE CASE pattern.group = "none" -> [matched |-> TRUE, groups |-> 0, group1 |-> None]
            [] pattern.group = "word" ->
                 IF word THEN [matched |-> TRUE, groups |-> 1, group1 |-> captured] ELSE NoMatch
            [] OTHER ->
                 [matched |-> TRUE, groups |-> 1, group1 |-> IF word THEN captured ELSE None]

\* pattern.search(text): the leftmost match (the empty pattern also matches
\* at the end of the text)
search(pattern, text) ==
  LET starts == {i \in 1..(Len(text) + 1) : MatchAt(pattern, text, i).matched}
  IN IF starts = {} THEN [matched |-> FALSE, groups |-> 0, group1 |-> None]
     ELSE MatchAt(pattern, text, CHOOSE i \in starts : \A k \in starts : i <= k)

\* a detector that lets the last matching pattern decide
DecidingPattern_Last(patterns, text) ==
  LET hits == {i \in DOMAIN patterns : search(patterns[i], text).matched}
  IN IF hits = {} THEN 0 ELSE CHOOSE i \in hits : \A k \in hits : i >= k

\* lines 91-94: the loop returns at the first pattern that matches (0: none)
DecidingPattern(patterns, text) ==
  LET hits == {i \in DOMAIN patterns : search(patterns[i], text).matched}
  IN IF hits = {} THEN 0 ELSE CHOOSE i \in hits : \A k \in hits : i <= k

\* DetectionResult (lines 11-25)
DetectionResult(is_push_request, job_id, has_attachment) ==
  [is_push_request |-> is_push_request, job_id |-> job_id,
   has_attachment |-> has_attachment, confidence |-> 1]

\* an emptiness test that lets the empty string through
IsEmpty_OnlyNone(message_content) == message_content = None

\* "not message_content" (lines 87 and 248): None or ""
IsEmpty(message_content) == message_content = None \/ message_content[1] = << >>

\* RegexMessageDetector.detect (lines 74-106); attachments is None or the
\* length of the list
Regex_detect(patterns, message_content, attachments) ==
  IF IsEmpty(message_content) THEN DetectionResult(FALSE, None, FALSE)
  ELSE LET i == DecidingPattern(patterns, message_content[1])
       IN IF i = 0 THEN DetectionResult(FALSE, None, FALSE)
          ELSE LET match == search(patterns[i], message_content[1])
               IN DetectionResult(TRUE,
                                  IF match.groups > 0 THEN match.group1 ELSE None,
                                  attachments # None /\ attachments[1] > 0)

\* a placeholder that answers an empty text itself
LLM_detect_NegativeOnEmpty(message_content, attachments) ==
  IF IsEmpty(message_content) THEN Returns(DetectionResult(FALSE, None, FALSE)) ELSE Raises

\* LLMMessageDetector.detect (lines 160-192): raise NotImplementedError
LLM_detect(message_content, attachments) == Raises

\* \b before position i and \b after position j, both holding word characters
WordBounds(text, i, j) ==
  /\ i = 1 \/ ~ IsWordChar(text[i - 1])
  /\ j = Len(text) \/ ~ IsWordChar(text[j + 1])

\* _PUSH_RE (line 211): \bpush(?:ed|ing|es)?\b, IGNORECASE
_PUSH_RE(text) ==
  \E i \in 1..Len(text), ending \in { << >>, <<"e", "d">>, <<"i", "n", "g">>, <<"e", "s">> } :
    /\ LiteralAt(text, i, <<"p", "u", "s", "h">> \o ending)
    /\ WordBounds(text, i, i + 3 + Len(ending))

\* an IT test that ignores letter case
_IT_RE_IgnoreCase(text) ==
  \E i \in 1..Len(text) :
    LiteralAt(text, i, <<"i", "t">>) /\ WordBounds(text, i, i + 1)

\* _IT_RE (line 215): (?<![a-z])(?<![A-Z])\bIT\b(?![a-z])(?![A-Z]); a letter
\* is a word character, so the look-arounds exclude nothing \b lets through
_IT_RE(text) ==
  \E i \in 1..(Len(text) - 1) :
    /\ text[i] = "I" /\ text[i + 1] = "T"
    /\ WordBounds(text, i, i + 1)

\* a trigger that always fires
_matches_keywords_Always(text) == TRUE

\* KeywordPreFilterDetector._matches_keywords (lines 225-231)
_matches_keywords(text) == _PUSH_RE(text) \/ _IT_RE(text)

RECURSIVE Detect(_, _, _)
\* KeywordPreFilterDetector.detect (lines 233-255), with the calls it makes
\* to the detector it wraps
PreFilter_detect(inner_detector, message_content, attachments) ==
  IF IsEmpty(message_content)
  THEN [outcome |-> Returns(DetectionResult(FALSE, None, FALSE)), inner_calls |-> << >>]
  ELSE IF ~ _matches_keywords(message_content[1])
  THEN [outcome |-> Returns(DetectionResult(FALSE, None, FALSE)), inner_calls |-> << >>]
  ELSE [outcome |-> Detect(inner_detector, message_content, attachments).outcome,
        inner_calls |-> << [message_content |-> message_content, attachments |-> attachments] >>]

\* detector.detect(message_content, attachments) for each kind of detector
Detect(detector, message_content, attachments) ==
  CASE detector.variant = "regex" ->
         [outcome |-> Returns(Regex_detect(detector.patterns, message_content, attachments)),
          inner_calls |-> << >>]
    [] detector.variant = "llm" ->
         [outcome |-> LLM_detect(message_content, attachments), inner_calls |-> << >>]
    [] OTHER -> PreFilter_detect(detector.inner_detector, message_content, attachments)

\* the calls: detect on a RegexMessageDetector built from the pattern strings
\* it was given, on an LLMMessageDetector without a client, or on a
\* KeywordPreFilterDetector around one of these; the constructor of a
\* RegexMessageDetector; add_pattern
DetectorCalls ==
  LET PatternLists == UNION { [1..n -> PatternStrings] : n \in 0..MaxPatterns }
      Regex == { [variant |-> "regex", patterns |-> CompileAll(l, << >>).patterns] :
                   l \in { q \in PatternLists : ~ CompileAll(q, << >>).raised } }
      Inner == Regex \cup { [variant |-> "llm", llm_client |-> None] }
  IN [op : {"detect"},
      detector : Inner \cup { [variant |-> "prefilter", inner_detector |-> d] : d \in Inner },
      message_content : {None} \cup { Some(t) : t \in TextsUpTo(MaxPieces) },
      attachments : {None, Some(1)}, done : {FALSE}, result : {<< >>}]
     \cup
     [op : {"__init__"}, patterns : PatternLists, done : {FALSE}, result : {<< >>}]
     \cup
     [op : {"add_pattern"}, detector : Regex, pattern : PatternStrings,
      done : {FALSE}, result : {<< >>}]

InitDetector == Constructed /\ call \in DetectorCalls

DetectorCall ==
  /\ ~ call.done
  /\ call' = [call EXCEPT !.done = TRUE,
                          !.result =
                            CASE call.op = "detect" ->
                                   Detect(call.detector, call.message_content, call.attachments)
                              [] call.op = "__init__" -> CompileAll(call.patterns, << >>)
                              [] OTHER -> add_pattern(call.detector.patterns, call.pattern)]
  /\ UNCHANGED << now, msgs, targetRefs, targetBodies, storeVars, tickVars, histVars,
                  ops, last_op >>

SpecDetector == InitDetector /\ [][DetectorCall]_vars

(***************************************************************************)
(* The claims.                                                             *)
(***************************************************************************)
\* get_new_messages has just returned the filtered list of a fetched,
\* non-empty message list of chat AllChats[ci]
JustPolled == pc = "msgs" /\ mi = 1 /\ resp # << >>

\* C1: over any sequence of ticks and restarts, the orchestrator obtains a
\* forwarded-message id for an original message id at most once.
C1_ForwardedAtMostOnce == \A m \in MsgIds : fwdOk[m] <= 1

\* a message forwarded in an earlier tick is returned again by the monitor and
\* handled without a forward
C1_Witness ==
  /\ pc = "msgs"
  /\ forwarded_count = 0
  /\ \E i \in 1..(mi - 1) : i <= Len(new_messages) /\ fwdOk[new_messages[i]] = 1

\* C2: a message whose forward failed is returned again by the next
\* get_new_messages of its chat that fetches the chat's messages.
C2_FailedForwardIsRetried ==
  JustPolled =>
    \A m \in failed : msgs[m].chat = AllChats[ci] => m \in Range(new_messages)

C4_InterruptedIsReevaluated ==
  JustPolled =>
    \A m \in dropped : msgs[m].chat = AllChats[ci] => m \in Range(new_messages)

\* C5: no step removes or lowers a stored cursor, in memory or in the file, and
\* the cursor a call reads is not below the one the preceding call wrote.
C5_CursorMonotonic ==
  /\ [][ \A c \in DOMAIN pollData.chats :
           /\ c \in DOMAIN pollData'.chats
           /\ get_last_poll_time(pollData', c)[1] >= get_last_poll_time(pollData, c)[1]
           /\ get_last_poll_time(PollLoad(pollFile'), c) # None
           /\ get_last_poll_time(PollLoad(pollFile'), c)[1] >= get_last_poll_time(pollData, c)[1]
       ]_vars
  /\ [] (pc = "fetched" /\ AllChats[ci] \in DOMAIN lastSet =>
           last_poll_time # None /\ last_poll_time[1] >= lastSet[AllChats[ci]])

\* a call has read a stored cursor and written a later one
C5_Witness ==
  /\ JustPolled
  /\ last_poll_time # None
  /\ get_last_poll_time(pollData, AllChats[ci])[1] > last_poll_time[1]

\* C6: a failed fetch makes get_new_messages return the empty list with the
\* poll store untouched, and the tick that ends has handled every monitored chat.
C6_FetchFailureIsolated ==
  /\ [][ (pc = "chats" /\ pc' = "msgs") =>
           /\ new_messages' = << >>
           /\ pollData' = pollData
           /\ pollFile' = pollFile
           /\ ci' = ci
       ]_vars
  /\ [] (pc = "chats" /\ ci > Len(AllChats) => polled \cup fetchFailed = MonitoredChats)

\* the fetch of the first chat failed and the second chat was polled in the same tick
C6_Witness ==
  /\ pc = "chats"
  /\ ci > Len(AllChats)
  /\ "c1" \in fetchFailed
  /\ "c2" \in polled
  /\ "c2" \in DOMAIN pollData.chats
  /\ "c1" \notin DOMAIN pollData.chats

C8_RecordIsPermanent ==
  /\ [][ \A m \in MsgIds :
           is_forwarded(fwdData, m) =>
             is_forwarded(fwdData', m) /\ is_forwarded(FwdLoad(fwdFile'), m)
       ]_vars
  /\ [] (last_op.kind = "mark" =>
           is_forwarded(fwdData, last_op.msg) /\ is_forwarded(FwdLoad(fwdFile), last_op.msg))

\* a second instance, constructed from the file, holds the records of both messages
C8_Witness ==
  /\ last_op.kind = "reload"
  /\ \A m \in MsgIds : is_forwarded(fwdData, m)

Records == fwdData.forwarded_messages
Index == Range(fwdData.forwarded_job_ids)

\* C9 as claimed: every job id of a record is in the index and every id of the
\* index is the job id of a current record, a job id being one that
\* mark_forwarded takes as present (neither None nor the empty string).
C9_IndexMatchesRecords ==
  /\ \A m \in DOMAIN Records : Truthy(Records[m].job_id) => Records[m].job_id[1] \in Index
  /\ \A j \in Index : \E m \in DOMAIN Records : Records[m].job_id = Some(j)

\* C9 as amended: every non-empty job id of a record is in the index, the index
\* holds no empty id, and, as long as no record has been replaced by one with
\* another job id, every id of the index is the job id of a current record.
C9_IndexCoversRecords ==
  /\ \A m \in DOMAIN Records : Truthy(Records[m].job_id) => Records[m].job_id[1] \in Index
  /\ << >> \notin Index
  /\ ~ rerecorded => \A j \in Index : \E m \in DOMAIN Records : Records[m].job_id = Some(j)

\* two records with different job ids, one message recorded a second time
\* with the job id it had
C9_Witness ==
  /\ ~ rerecorded
  /\ ops > Cardinality(DOMAIN Records)
  /\ last_op.kind = "mark"
  /\ Cardinality(Index) = 2
  /\ \A m \in MsgIds : m \in DOMAIN Records /\ Truthy(Records[m].job_id)

\* C10: between calls each file, once written, holds the instance's data, an
\* instance constructed from the files has the data of the live one, and
\* get_last_poll_time on it gives the time last set for each chat.
C10_WriteThrough ==
  /\ PollLoad(pollFile) = pollData
  /\ FwdLoad(fwdFile) = fwdData
  /\ pollFile.kind = "json" => pollFile = JsonDump(pollData)
  /\ fwdFile.kind = "json" => fwdFile = JsonDump(fwdData)
  /\ DOMAIN lastSet # {} => pollFile.kind = "json"
  /\ DOMAIN Records # {} => fwdFile.kind = "json"
  /\ \A c \in DOMAIN lastSet : get_last_poll_time(PollLoad(pollFile), c) = Some(lastSet[c])

\* both stores were written and instances constructed from the files hold a
\* cursor and a record
C10_Witness ==
  /\ last_op.kind = "reload"
  /\ DOMAIN pollData.chats # {}
  /\ DOMAIN Records # {}

\* C11: a store constructed over a missing or damaged file is constructed
\* without an exception, and the method then called on it returns what it
\* returns on a store constructed over no file.
C11_DamagedFileLoadsEmpty ==
  (call.done /\ call.file \in {MissingFile} \cup CorruptFiles) =>
     /\ ~ call.result.raised
     /\ call.result = LoadOutcome(MissingFile, call.method)

Local == is_forwarded(call.data, call.message_id)

\* C12: when the message id has a record in the forwarded store, is_duplicate
\* returns true whatever the job id and makes no remote check.
C12_LocalRecordShortCircuits ==
  (call.done /\ Local) =>
     /\ ~ call.result.raised
     /\ call.result.value
     /\ call.result.calls = << >>

\* a recorded message, a job id, and a target chat whose queries would fail
C12_Witness ==
  /\ call.done /\ Local
  /\ Truthy(call.job_id)
  /\ call.q2 = "raise" /\ call.q3 = "raise"
  /\ call.result.value

\* what the two remote checks find when evaluated on their own
Found2 == ForwardedCheck(call.q2, call.value, call.message_id) = "found"
Found3 == Truthy(call.job_id) /\ JobCheck(call.q3, call.value, call.job_id[1]) = "found"
Failed2 == ForwardedCheck(call.q2, call.value, call.message_id) = "failed"

\* C13: is_duplicate does not raise; a remote check that fails counts as not
\* found, the job-id check is still made after a failed reference check, and
\* the verdict is the disjunction of the local check and the remote checks
\* that found something.
C13_RemoteFailureIsNotFound ==
  call.done =>
     /\ ~ call.result.raised
     /\ call.result.value = (Local \/ Found2 \/ Found3)
     /\ (~ Local /\ Failed2 /\ Truthy(call.job_id)) =>
           call.result.calls = << "forwarded", "job" >>

\* the reference check failed and the job-id check, made after it, found the job
C13_Witness ==
  /\ call.done /\ ~ Local
  /\ Failed2
  /\ call.q3 = "ok"
  /\ call.result.calls = << "forwarded", "job" >>
  /\ call.result.value

\* some message of the target chat carries a forward reference to the message
Referenced ==
  \E i \in DOMAIN call.value :
    \E k \in DOMAIN call.value[i].attachments :
      /\ call.value[i].attachments[k].content_type = FORWARD_REF
      /\ call.value[i].attachments[k].content.kind = "object"
      /\ call.value[i].attachments[k].content.originalMessageId = Some(call.message_id)

\* C14: for a message without a local record, when the query of the target
\* chat returns a list in which some message carries a forward reference to
\* the message, is_duplicate returns true, wherever the reference stands.
C14_ReferenceAnywhereIsFound ==
  (call.done /\ ~ Local /\ call.q2 = "ok" /\ Referenced) => call.result.value

\* a job id occurs in the body of some message of the target chat, letter
\* case aside
Mentioned ==
  \E i \in DOMAIN call.value :
    /\ call.value[i].body # None
    /\ Contains(Lower(call.value[i].body[1]), Lower(call.job_id[1]))

\* C15: for a message without a local record and a non-empty job id, when the
\* query of the job-id check returns a list in which some body contains the
\* job id, letter case aside, is_duplicate returns true.
C15_JobMentionIsFound ==
  (call.done /\ ~ Local /\ Truthy(call.job_id) /\ call.q3 = "ok" /\ Mentioned) =>
     call.result.value

\* job id j1 against a body holding J1, no reference to the message in the chat
C15_Witness ==
  /\ call.done /\ ~ Local
  /\ call.job_id = Some(<<"j", "1">>)
  /\ call.q3 = "ok"
  /\ ~ Found2
  /\ Mentioned
  /\ call.result.value

\* C16: the list get_new_messages returns holds no message of the monitored
\* identity, in the direct and in the group chat, with and without a cursor,
\* and no such message is forwarded.
C16_NoSelfMessages ==
  /\ \A i \in DOMAIN new_messages : msgs[new_messages[i]].from_name # my_display_name
  /\ \A m \in DOMAIN msgs : fwdOk[m] > 0 => msgs[m].from_name # my_display_name

\* a push request of the monitored identity, newer than the cursor and
\* mentioning it, was fetched and is not in the list returned
C16_Witness ==
  /\ JustPolled
  /\ \E i \in DOMAIN resp :
       /\ msgs[resp[i]].from_name = my_display_name
       /\ ~ NotNewer(last_poll_time, msgs[resp[i]].created_date_time)
       /\ resp[i] \notin Range(new_messages)
  /\ new_messages # << >>

\* the messages of the fetched list that the filters other than the time
\* filter let through
PassesOthers(c, m) ==
  /\ m.content.text # ""
  /\ m.from_name # my_display_name
  /\ \/ c = "c1"
     \/ c = "c2" /\ my_display_name \in m.mentions

\* C17 as claimed: with a cursor stored every returned message has a creation
\* time after the cursor; without one no message is held back for its time.
C17_ReturnedAreNewer ==
  call.done =>
    /\ call.last # None =>
         \A i \in DOMAIN call.result :
           /\ call.result[i].created_date_time # NoTime
           /\ call.result[i].created_date_time > call.last[1]
    /\ call.last = None =>
         call.result = SelectSeq(call.value, LAMBDA m : PassesOthers(call.chat, m))

\* C17 as amended: with a cursor stored every returned message that has a
\* creation time has one after the cursor, and every message with a creation
\* time at or before the cursor is held back; a message without a creation
\* time, and any message when no cursor is stored, is not held back for its
\* time.
C17_TimedReturnedAreNewer ==
  call.done =>
    /\ call.last # None =>
         call.result =
           SelectSeq(call.value,
                     LAMBDA m : /\ PassesOthers(call.chat, m)
                                /\ \/ m.created_date_time = NoTime
                                   \/ m.created_date_time > call.last[1])
    /\ call.last = None =>
         call.result = SelectSeq(call.value, LAMBDA m : PassesOthers(call.chat, m))

\* with the cursor at 1, a message created at 1 was held back and one created
\* at 2 returned
C17_Witness ==
  /\ call.done
  /\ call.chat = "c1"
  /\ call.last = Some(1)
  /\ Len(call.value) = 2
  /\ call.value[1].created_date_time = 1 /\ PassesOthers("c1", call.value[1])
  /\ call.value[2].created_date_time = 2
  /\ call.result = << call.value[2] >>

\* the messages that pass the empty-body, self-author and cursor filters
PassesFirstThree(m) ==
  /\ m.content.text # ""
  /\ m.from_name # my_display_name
  /\ ~ NotNewer(call.last, m.created_date_time)

\* C18: of the messages passing the first three filters, the direct chat
\* returns all, the group chat those that mention the monitored identity's
\* display name, the meeting chat none.
C18_FilterByChatKind ==
  call.done =>
    /\ call.chat = "c1" =>
         call.result = SelectSeq(call.value, PassesFirstThree)
    /\ call.chat = "c2" =>
         call.result = SelectSeq(call.value,
                                 LAMBDA m : PassesFirstThree(m) /\ my_display_name \in m.mentions)
    /\ call.chat = "m1" => call.result = << >>

\* in the group chat a message mentioning the monitored identity was returned
\* and one mentioning only somebody else was not
C18_Witness ==
  /\ call.done
  /\ call.chat = "c2"
  /\ Len(call.value) = 2
  /\ PassesFirstThree(call.value[1]) /\ call.value[1].mentions = {"bob"}
  /\ PassesFirstThree(call.value[2]) /\ call.value[2].mentions = {my_display_name}
  /\ call.result = << call.value[2] >>

\* C19: no tick is cut short: a tick that has started ends at the report of
\* forwarded_count, all monitored chats polled or found failing, and never in
\* the handler of an exception that ended the loop over the chats.
C19_TickAlwaysCompletes ==
  /\ pc # "aborted"
  /\ (pc = "chats" /\ ci > Len(AllChats)) => polled \cup fetchFailed = MonitoredChats

\* C20: a reaction call that fails or raises leaves the forwarded store and
\* its file, with the record of the message, and the count as they were, and
\* the tick goes on with the next message; while the reaction is pending the
\* record is in the store and in its file and the count includes it.
C20_ReactionFailureKeepsForward ==
  /\ [][ (pc = "react" /\ pc' = "msgs" /\ msgs' = msgs) =>
           /\ fwdData' = fwdData /\ fwdFile' = fwdFile
           /\ is_forwarded(fwdData', new_messages[mi])
           /\ forwarded_count' = forwarded_count
           /\ mi' = mi + 1 /\ ci' = ci /\ new_messages' = new_messages
       ]_vars
  /\ [] (pc = "react" =>
           /\ is_forwarded(fwdData, new_messages[mi])
           /\ is_forwarded(FwdLoad(fwdFile), new_messages[mi])
           /\ forwarded_count >= 1)

\* the reaction on a forwarded message failed, its record and the count
\* stand, and the tick has gone on to forward the next message of the chat
C20_Witness ==
  /\ pc = "react"
  /\ mi = 2
  /\ forwarded_count = 2
  /\ ~ msgs[new_messages[1]].reacted
  /\ is_forwarded(fwdData, new_messages[1])
  /\ is_forwarded(fwdData, new_messages[2])

C22_FirstMatchDecides ==
  (call.op = "detect" /\ call.done /\ call.detector.variant = "regex"
     /\ ~ IsEmpty(call.message_content))
  => LET patterns == call.detector.patterns
         text == call.message_content[1]
         result == call.result.outcome.value[1]
         matching == {i \in DOMAIN patterns : search(patterns[i], text).matched}
     IN /\ ~ call.result.outcome.raised
        /\ matching = {} => (~ result.is_push_request /\ result.job_id = None)
        /\ \A i \in matching :
             (\A k \in matching : i <= k)
             => /\ result.is_push_request
                /\ result.job_id = search(patterns[i], text).group1
                /\ patterns[i].group = "none" => result.job_id = None

\* two patterns match and capture different ids; the first one's id is returned
C22_Witness ==
  /\ call.op = "detect" /\ call.done /\ call.detector.variant = "regex"
  /\ ~ IsEmpty(call.message_content)
  /\ Len(call.detector.patterns) = 2
  /\ LET first == search(call.detector.patterns[1], call.message_content[1])
         second == search(call.detector.patterns[2], call.message_content[1])
     IN /\ first.matched /\ second.matched
        /\ first.group1 # None /\ second.group1 # None
        /\ first.group1 # second.group1
        /\ call.result.outcome.value[1].job_id = first.group1

\* C23 as stated: every detector variant, the placeholder included, returns
\* a negative outcome for an empty or absent text
C23_EmptyTextIsNegative ==
  (call.op = "detect" /\ call.done /\ call.message_content \in {None, Some(<< >>)})
  => call.result.outcome = Returns(DetectionResult(FALSE, None, FALSE))

\* C23: for an empty or absent text the Pattern Detector and the Keyword
\* Pre-filter (around any detector, the placeholder included) return a
\* negative outcome without calling further, whatever the patterns; the
\* placeholder called directly raises
C23_EmptyTextIsNegativeOrNotImplemented ==
  (call.op = "detect" /\ call.done /\ call.message_content \in {None, Some(<< >>)})
  => IF call.detector.variant = "llm"
     THEN call.result.outcome.raised
     ELSE /\ call.result.outcome = Returns(DetectionResult(FALSE, None, FALSE))
          /\ call.result.inner_calls = << >>

\* the empty string given to a detector whose pattern matches every text, and
\* to a pre-filter around the placeholder
C23_Witness ==
  /\ call.op = "detect" /\ call.done
  /\ call.message_content = Some(<< >>)
  /\ \/ /\ call.detector.variant = "regex"
        /\ \E i \in DOMAIN call.detector.patterns : call.detector.patterns[i].lit = << >>
     \/ /\ call.detector.variant = "prefilter"
        /\ call.detector.inner_detector.variant = "llm"
  /\ ~ call.result.outcome.raised
  /\ ~ call.result.outcome.value[1].is_push_request

\* C24: the pre-filter calls the detector it wraps exactly when a keyword
\* trigger fires on the text: without a trigger the outcome is negative and
\* the wrapped detector is not called; with one it is called once, with the
\* same text and attachments, and what it returns or raises is the outcome
C24_InnerCalledIffTriggered ==
  (call.op = "detect" /\ call.done /\ call.detector.variant = "prefilter")
  => LET fires == /\ call.message_content # None
                  /\ \/ _PUSH_RE(call.message_content[1])
                     \/ _IT_RE(call.message_content[1])
     IN IF fires
        THEN /\ call.result.inner_calls =
                  << [message_content |-> call.message_content,
                      attachments |-> call.attachments] >>
             /\ call.result.outcome =
                  Detect(call.detector.inner_detector, call.message_content,
                         call.attachments).outcome
        ELSE /\ call.result.inner_calls = << >>
             /\ call.result.outcome = Returns(DetectionResult(FALSE, None, FALSE))

\* a trigger fired and the wrapped Pattern Detector's positive outcome, job id
\* and attachment flag included, came back
C24_Witness ==
  /\ call.op = "detect" /\ call.done /\ call.detector.variant = "prefilter"
  /\ call.detector.inner_detector.variant = "regex"
  /\ Len(call.result.inner_calls) = 1
  /\ call.result.outcome.value[1].is_push_request
  /\ call.result.outcome.value[1].job_id = Some(<<"J", "1">>)
  /\ call.result.outcome.value[1].has_attachment

\* C25: the pattern list holds exactly the valid patterns supplied, in
\* supply order: the constructor skips a pattern that does not compile and
\* does not fail; add_pattern with such a pattern returns False, does not
\* raise and leaves the list as it was; with a valid one it appends it last
\* and returns True
C25_PatternListIsValidSupplied ==
  /\ (call.op = "__init__" /\ call.done)
     => /\ ~ call.result.raised
        /\ call.result.patterns =
             SelectSeq(call.patterns, LAMBDA q : q.group \notin {"malformed", "too_large"})
  /\ (call.op = "add_pattern" /\ call.done)
     => /\ ~ call.result.raised
        /\ IF call.pattern.group \in {"malformed", "too_large"}
           THEN call.result.value = << FALSE >>
                /\ call.result.patterns = call.detector.patterns
           ELSE call.result.value = << TRUE >>
                /\ call.result.patterns = Append(call.detector.patterns, call.pattern)

\* C28: detect on the placeholder detector without a backend raises for
\* every text, the empty and the absent one included, and returns nothing
C28_PlaceholderRaises ==
  (call.op = "detect" /\ call.done /\ call.detector.variant = "llm")
  => (call.result.outcome.raised /\ call.result.outcome.value = << >>)

\* the placeholder was asked about a push request and about an empty text
C28_Witness ==
  /\ call.op = "detect" /\ call.done /\ call.detector.variant = "llm"
  /\ call.detector.llm_client = None
  /\ call.message_content \in {Some(<< >>), Some(<<"p", "u", "s", "h", " ", "J", "1">>)}
  /\ call.result.outcome.raised

\* C29: the pre-filter's trigger fires (the wrapped detector is called)
\* exactly when one of the words of the text, the maximal runs of word
\* characters, is push, pushed, pushing or pushes in any letter case, or is
\* IT in upper case
C29_TriggerIsWholeWord ==
  (call.op = "detect" /\ call.done /\ call.detector.variant = "prefilter"
     /\ call.message_content # None)
  => LET text == call.message_content[1]
         words == { SubSeq(text, i, j) : i \in 1..Len(text), j \in 1..Len(text) }
         whole == { w \in words :
                      /\ w # << >>
                      /\ \A k \in DOMAIN w : w[k] # " "
                      /\ \E i \in 1..Len(text) :
                           /\ i + Len(w) - 1 <= Len(text)
                           /\ SubSeq(text, i, i + Len(w) - 1) = w
                           /\ i > 1 => text[i - 1] = " "
                           /\ i + Len(w) <= Len(text) => text[i + Len(w)] = " " }
         keyword(w) == \/ Lower(w) \in { <<"p", "u", "s", "h">>,
                                         <<"p", "u", "s", "h", "e", "d">>,
                                         <<"p", "u", "s", "h", "i", "n", "g">>,
                                         <<"p", "u", "s", "h", "e", "s">> }
                       \/ w = <<"I", "T">>
     IN (call.result.inner_calls # << >>) <=> (\E w \in whole : keyword(w))

\* upper-case IT as a word of its own fired the trigger
C29_Witness ==
  /\ call.op = "detect" /\ call.done /\ call.detector.variant = "prefilter"
  /\ call.message_content = Some(<<"I", "T", " ">>)
  /\ call.result.inner_calls # << >>

\* C26: the job check answers true for a spelling exactly when a job id
\* that differs from it at most in letter case has been recorded: recording
\* j makes every case variant of j found, in the instance and in one
\* reloaded from the file, a found spelling stays found, and nothing else
\* makes a spelling found
C26_JobCheckIgnoresCase ==
  /\ \A s \in JobStrings \cup { <<"k", "2">> } : ~ is_job_id_forwarded(FwdLoad(MissingFile), s)
  /\ [][ \A s \in JobStrings \cup { <<"k", "2">> } :
           LET variant(a, b) ==
                 /\ Len(a) = Len(b)
                 /\ \A i \in DOMAIN a :
                      a[i] = b[i] \/ {a[i], b[i]} \in { {"J", "j"}, {"K", "k"} }
               recorded == /\ ops' = ops + 1
                           /\ last_op'.kind = "mark"
                           /\ last_op'.job # None
                           /\ last_op'.job[1] # << >>
                           /\ variant(last_op'.job[1], s)
           IN /\ is_job_id_forwarded(fwdData', s)
                   <=> (is_job_id_forwarded(fwdData, s) \/ recorded)
              /\ is_job_id_forwarded(FwdLoad(fwdFile'), s)
                   <=> is_job_id_forwarded(fwdData', s) ]_vars

\* J1 was recorded, the store was reloaded, and j1 is found although the
\* index holds J1 only
C26_Witness ==
  /\ last_op.kind = "reload"
  /\ Index = { <<"J", "1">> }
  /\ is_job_id_forwarded(fwdData, <<"j", "1">>)
  /\ ~ is_job_id_forwarded(fwdData, <<"K", "2">>)

\* C27: mark_forwarded with an absent job id adds the record of the message
\* and leaves the job-id list, and what get_all_forwarded_job_ids returns,
\* as they were, in the instance and in the file
C27_AbsentJobLeavesIndex ==
  [][ (ops' = ops + 1 /\ last_op'.kind = "mark" /\ last_op'.job = None)
      => /\ is_forwarded(fwdData', last_op'.msg)
         /\ fwdData'.forwarded_messages[last_op'.msg].job_id = None
         /\ fwdData'.forwarded_job_ids = fwdData.forwarded_job_ids
         /\ get_all_forwarded_job_ids(fwdData') = get_all_forwarded_job_ids(fwdData)
         /\ get_all_forwarded_job_ids(FwdLoad(fwdFile')) = get_all_forwarded_job_ids(fwdData) ]_vars

\* a message without job id was recorded while the index held a job id
C27_Witness ==
  /\ last_op.kind = "mark"
  /\ last_op.job = None
  /\ is_forwarded(fwdData, last_op.msg)
  /\ Index = { <<"J", "1">> }

\* C30: a message at or below the stored cursor was in the list of a
\* successful fetch: whenever the cursor of a conversation moves, every
\* non-empty message of the conversation that is not from the monitored
\* identity and whose creation time the new cursor reaches was either in the
\* list just fetched or already at or below the old cursor; so a message
\* written between the fetch and the cursor write is still above the cursor
C30_CursorCoversOnlyFetched ==
  [][ \A c \in MonitoredChats :
        LET old == get_last_poll_time(pollData, c)
            new == get_last_poll_time(pollData', c)
        IN (new # old /\ new # None)
           => \A m \in DOMAIN msgs' :
                (/\ msgs'[m].chat = c
                 /\ msgs'[m].content.text # ""
                 /\ ~ _is_from_self(msgs'[m])
                 /\ msgs'[m].created_date_time <= new[1])
                => \/ m \in Range(resp)
                   \/ old # None /\ msgs'[m].created_date_time <= old[1] ]_vars

\* C31: is_duplicate returns true exactly when the local record check, the
\* forwarded-reference check or, for a non-empty job id only, the job-mention
\* check succeeds, made in that order and no further than the first that
\* succeeds; with an absent or empty job id the job-mention query is not
\* issued and no body of the target conversation makes the result true
C31_ThreeChecksInOrder ==
  (call.op = "is_duplicate" /\ call.done)
  => LET local == call.message_id \in DOMAIN call.data.forwarded_messages
         referenced == ForwardedCheck(call.q2, call.value, call.message_id) = "found"
         nonempty == call.job_id # None /\ call.job_id[1] # << >>
         mentioned == nonempty /\ JobCheck(call.q3, call.value, call.job_id[1]) = "found"
     IN /\ ~ call.result.raised
        /\ call.result.value <=> (local \/ referenced \/ mentioned)
        /\ call.result.calls =
             IF local THEN << >>
             ELSE IF referenced \/ ~ nonempty THEN << "forwarded" >>
             ELSE << "forwarded", "job" >>
        /\ (~ nonempty /\ ~ local /\ ~ referenced) => ~ call.result.value

\* an empty job id, no record and no reference, a target message with a
\* body: only the reference query was made and the verdict is negative
C31_Witness ==
  /\ call.op = "is_duplicate" /\ call.done
  /\ call.job_id = Some(<< >>)
  /\ call.q3 = "ok"
  /\ \E i \in DOMAIN call.value :
       call.value[i].body # None /\ call.value[i].body[1] # << >>
  /\ call.result.calls = << "forwarded" >>
  /\ ~ call.result.value

\* C32: once a message that carries job id j is forwarded and recorded, no
\* other message that carries j, letter case apart, is forwarded: a forward
\* succeeds only for a message whose job id no other message's record holds
C32_JobForwardedOnce ==
  [][ \A m \in DOMAIN msgs :
        (fwdOk'[m] > fwdOk[m] /\ msgs[m].content.job # None)
        => ~ \E m2 \in DOMAIN fwdData.forwarded_messages :
               /\ m2 # m
               /\ fwdData.forwarded_messages[m2].job_id # None
               /\ Lower(fwdData.forwarded_messages[m2].job_id[1])
                    = Lower(msgs[m].content.job[1]) ]_vars

\* C33: within a tick the remote steps follow one another: while a message
\* is checked, forwarded or reacted to, every earlier message of the list
\* has been dealt with (no push request, found a duplicate, forwarded and
\* recorded, or its forward failed); the loop leaves a conversation only
\* when all its messages have been dealt with, and a conversation is fetched
\* only from the head of the chat loop, with no message pending
C33_RemoteStepsSequential ==
  [][ LET dealt(m) ==
            \/ ~ detect(msgs[m].content).is_push_request
            \/ m \in DOMAIN fwdData.forwarded_messages
            \/ m \in failed
            \/ m \in targetRefs
            \/ /\ msgs[m].content.job # None
               /\ \E b \in targetBodies :
                    Contains(Lower(b), Lower(msgs[m].content.job[1]))
      IN /\ pc \in {"msgs", "forward", "react"}
              => \A k \in DOMAIN new_messages : k < mi => dealt(new_messages[k])
         /\ pc \in {"forward", "react"} => mi \in DOMAIN new_messages
         /\ (pc = "msgs" /\ pc' = "chats")
              => \A k \in DOMAIN new_messages : dealt(new_messages[k])
         /\ (pc' = "fetched" /\ pc # "fetched")
              => (pc = "chats" /\ new_messages = << >> /\ cur_job = None) ]_vars

\* the second message of a conversation is being checked after the first
\* was forwarded and recorded
C33_Witness ==
  /\ pc = "msgs"
  /\ mi = 2
  /\ Len(new_messages) = 2
  /\ new_messages[1] \in DOMAIN fwdData.forwarded_messages
  /\ fwdOk[new_messages[1]] = 1

\* C34: is_duplicate changes neither store nor its file; get_new_messages
\* on conversation c changes nothing of the forwarded store and, of the
\* cursor store, nothing but the cursor of c, in memory and in the file
C34_FrameOfCheckAndPoll ==
  [][ /\ (/\ pc = "msgs" /\ mi \in DOMAIN new_messages
          /\ pc' \in {"msgs", "forward"}
          /\ (mi' # mi \/ pc' # pc))
         => (pollData' = pollData /\ pollFile' = pollFile
             /\ fwdData' = fwdData /\ fwdFile' = fwdFile)
      /\ (pc \in {"chats", "fetched"} /\ pc' \in {"fetched", "msgs"} /\ pc' # pc)
         => /\ fwdData' = fwdData /\ fwdFile' = fwdFile
            /\ \A c \in (DOMAIN pollData.chats \cup DOMAIN pollData'.chats) \ {AllChats[ci]} :
                 /\ c \in DOMAIN pollData.chats /\ c \in DOMAIN pollData'.chats
                 /\ pollData'.chats[c] = pollData.chats[c]
                 /\ c \in DOMAIN PollLoad(pollFile').chats
                 /\ PollLoad(pollFile').chats[c] = pollData.chats[c] ]_vars

\* get_new_messages has just written the cursor of c2 while c1 keeps the
\* cursor of its earlier poll
C34_Witness ==
  /\ pc = "msgs" /\ mi = 1
  /\ AllChats[ci] = "c2"
  /\ "c2" \in polled
  /\ get_last_poll_time(pollData, "c1") # None
  /\ get_last_poll_time(pollData, "c2") # None
  /\ get_last_poll_time(pollData, "c1") # get_last_poll_time(pollData, "c2")

\* C35: the target conversation is never polled: no message that resides in
\* it is fetched, detected, forwarded or recorded, and neither the cursor
\* store nor its file ever holds a cursor for the target conversation's id
C35_TargetNeverPolled ==
  /\ "target" \notin DOMAIN pollData.chats
  /\ "target" \notin DOMAIN PollLoad(pollFile).chats
  /\ \A m \in DOMAIN msgs :
       msgs[m].chat = "target"
       => /\ m \notin Range(resp)
          /\ m \notin Range(new_messages)
          /\ fwdOk[m] = 0
          /\ m \notin failed
          /\ m \notin DOMAIN fwdData.forwarded_messages

\* a push request that mentions the monitored identity sits in the target
\* conversation while a tick has gone through all chats
C35_Witness ==
  /\ pc = "chats"
  /\ ci > Len(AllChats)
  /\ \E m \in DOMAIN msgs :
       /\ msgs[m].chat = "target"
       /\ detect(msgs[m].content).is_push_request
       /\ my_display_name \in msgs[m].mentions
       /\ fwdOk[m] = 0

\* C36: the job-id index holds no two entries that are equal when letter
\* case is ignored, in the instance and in the file
C36_IndexIsCaseFolded ==
  \A data \in {fwdData, FwdLoad(fwdFile)} :
    \A i, k \in DOMAIN data.forwarded_job_ids :
      i # k => Lower(data.forwarded_job_ids[i]) # Lower(data.forwarded_job_ids[k])

====
